---------------------------- MODULE Spec2Model ----------------------------
(* Model of src/main.py: the iSCSI / ZFS reconciliation tool.  Strings are  *)
(* sequences of one-character strings, so that substring search, the       *)
(* identifier pattern, whitespace splitting and stripping are computed the  *)
(* way the Python code computes them.                                       *)
EXTENDS Integers, Sequences, FiniteSets

\* ------------------------------------------------------------ bounds
\* Largest number of node records in the host's iSCSI database at start.
MaxTargets == 2

\* ------------------------------------------------------------ strings
Whitespace == {" ", "\n"}

\* The character class [a-f0-9-] of the identifier pattern.
HexDash == {"a", "b", "c", "d", "e", "f",
            "0", "1", "2", "3", "4", "5", "6", "7", "8", "9", "-"}

\* The literal head "pvc-" of the pattern and of the startswith tests.
PVC == <<"p", "v", "c", "-">>

SetMin(S) == CHOOSE x \in S : \A y \in S : x <= y
SetMax(S) == CHOOSE x \in S : \A y \in S : y <= x

\* p occurs in s at position i.
OccursAt(p, s, i) ==
    /\ i + Len(p) - 1 <= Len(s)
    /\ SubSeq(s, i, i + Len(p) - 1) = p

\* Python: sub in s
Contains(sub, s) == \E i \in 1..(Len(s) - Len(sub) + 1) : OccursAt(sub, s, i)

\* Python: s.startswith(p)
startswith(s, p) == OccursAt(p, s, 1)

RECURSIVE lstrip(_)
lstrip(s) == IF s # <<>> /\ Head(s) \in Whitespace THEN lstrip(Tail(s)) ELSE s

RECURSIVE rstrip(_)
rstrip(s) ==
    IF s # <<>> /\ s[Len(s)] \in Whitespace
    THEN rstrip(SubSeq(s, 1, Len(s) - 1))
    ELSE s

\* Python: s.strip()
strip(s) == rstrip(lstrip(s))

\* The k-th smallest element of a set of numbers.
Nth(S, k) == CHOOSE x \in S : Cardinality({y \in S : y < x}) = k - 1

\* Python: s.splitlines()  (a line ends at each line break; what follows the
\* last line break is a line only when it is not empty)
splitlines(s) ==
    LET breaks == {i \in 1..Len(s) : s[i] = "\n"}
        n      == Cardinality(breaks)
        count  == IF s # <<>> /\ s[Len(s)] # "\n" THEN n + 1 ELSE n
    IN [k \in 1..count |->
           SubSeq(s, IF k = 1 THEN 1 ELSE Nth(breaks, k - 1) + 1,
                     IF k <= n THEN Nth(breaks, k) - 1 ELSE Len(s))]

\* Python: s.split()  (the maximal runs of characters that are not whitespace)
split(s) ==
    LET starts == {i \in 1..Len(s) :
                      /\ s[i] \notin Whitespace
                      /\ i = 1 \/ s[i - 1] \in Whitespace}
        stop(i) == SetMax({j \in i..Len(s) :
                              \A k \in i..j : s[k] \notin Whitespace})
    IN [k \in 1..Cardinality(starts) |->
           SubSeq(s, Nth(starts, k), stop(Nth(starts, k)))]

\* Python: s.split('/')[-1]
last_segment(s) ==
    LET sl == {i \in 1..Len(s) : s[i] = "/"} IN
    IF sl = {} THEN s ELSE SubSeq(s, SetMax(sl) + 1, Len(s))

\* Python: re.search(r'(pvc-[a-f0-9-]+)', s): the leftmost match, extended
\* greedily; <<>> stands for None (a match is never empty).
re_search(s) ==
    LET starts == {i \in 1..Len(s) :
                      /\ OccursAt(PVC, s, i)
                      /\ i + 4 <= Len(s)
                      /\ s[i + 4] \in HexDash} IN
    IF starts = {} THEN <<>>
    ELSE LET i == SetMin(starts)
             ends == {j \in (i + 4)..Len(s) :
                         \A k \in (i + 4)..j : s[k] \in HexDash}
         IN SubSeq(s, i, SetMax(ends))


\* ------------------------------------------------------ configuration
\* IQN_PREFIX, abbreviated to one character ("iqn.2024-03.lan.asgard:knas").
IQN_PREFIX == <<"q">>

\* ZFS_PARENT_DATASET, abbreviated to one character ("data/csi/iscsi").
ZFS_PARENT_DATASET == <<"d">>

\* --------------------------------------------------------- the host
\* Target names a node record of the host may carry:
\*   q:pvc-a    identifier pvc-a
\*   q:pvc-ab   identifier pvc-ab, of which pvc-a is a substring
\*   qx:pvc-a   another target with identifier pvc-a
\*   z:pvc-b    a target outside the configured prefix
TargetNames ==
    { <<"q", ":">> \o PVC \o <<"a">>,
      <<"q", ":">> \o PVC \o <<"a", "b">>,
      <<"q", "x", ":">> \o PVC \o <<"a">>,
      <<"z", ":">> \o PVC \o <<"b">> }

\* Volume datasets the host may hold, in the order zfs lists them; the last
\* one lies outside the configured parent dataset.
ZvolPaths ==
    << <<"d", "/">> \o PVC \o <<"a">>,
       <<"d", "/">> \o PVC \o <<"a", "b">>,
       <<"e", "/">> \o PVC \o <<"a">> >>

\* Names of the PersistentVolumes the cluster may report.
PvNames == { PVC \o <<"a">>, <<"x">> }

\* Exit status of a host command: 0, 1, and 2 for any other non-zero status.
ExitCodes == {0, 1, 2}

\* No command has run yet.
NoExit == SetMin(ExitCodes) - 1

\* No target (Python None); a target name is never empty.
None == <<>>

\* The portal field that precedes the target name in a node line.
Portal == <<"0">>

\* stdout of `iscsiadm -m node`: one line "<portal> <target>" per record.
RECURSIVE iscsiadm_node(_)
iscsiadm_node(nodes) ==
    IF nodes = <<>> THEN <<>>
    ELSE Portal \o <<" ">> \o Head(nodes) \o <<"\n">> \o iscsiadm_node(Tail(nodes))

\* stdout of `zfs list -t volume -H -o name -r <dataset>`: one name per line.
RECURSIVE zfs_list_from(_, _)
zfs_list_from(zvols, i) ==
    IF i > Len(ZvolPaths) THEN <<>>
    ELSE (IF ZvolPaths[i] \in zvols THEN ZvolPaths[i] \o <<"\n">> ELSE <<>>)
         \o zfs_list_from(zvols, i + 1)

zfs_list(zvols) == zfs_list_from(zvols, 1)

\* Effect of a successful `iscsiadm -m node -T <target> -o delete`: every
\* record of that target name leaves the node database.
RECURSIVE delete_records(_, _)
delete_records(nodes, t) ==
    IF nodes = <<>> THEN <<>>
    ELSE (IF Head(nodes) = t THEN <<>> ELSE <<Head(nodes)>>)
         \o delete_records(Tail(nodes), t)

\* ------------------------------------------------------ pure functions
\* run_command as it would be if only exit status 1 were swallowed and any
\* other failure raised again.
run_command_reraising(stdout, exit) ==
    [ out    |-> IF exit = 0 THEN strip(stdout) ELSE <<>>,
      err    |-> exit # 0 /\ exit # 1,
      raises |-> exit # 0 /\ exit # 1 ]

\* run_command: the value returned to the caller (out), whether the error
\* was printed to stderr (err), and whether an exception leaves the function.
run_command(stdout, exit) ==
    [ out    |-> IF exit = 0 THEN strip(stdout) ELSE <<>>,
      err    |-> exit # 0 /\ exit # 1,
      raises |-> FALSE ]

\* get_iscsi_nodes, one line: the target name the line contributes (its
\* second field), or None when the line is skipped.
line_target(line) ==
    LET parts == split(line) IN
    IF /\ Contains(IQN_PREFIX, line)
       /\ Len(parts) >= 2
       /\ re_search(parts[2]) # <<>>
    THEN parts[2]
    ELSE None

\* The loop of get_iscsi_nodes over the lines of the listing: the target
\* names are appended in the order of the lines, each with its identifier.
get_iscsi_nodes(raw_out) ==
    LET lines   == splitlines(raw_out)
        targets == SelectSeq([i \in 1..Len(lines) |-> line_target(lines[i])],
                             LAMBDA t : t # None)
    IN [ uuids        |-> {re_search(targets[i]) : i \in 1..Len(targets)},
         full_targets |-> targets ]

get_zfs_volumes(raw_out) ==
    LET lines == splitlines(raw_out) IN
    { last_segment(strip(lines[i])) :
        i \in { j \in 1..Len(lines) :
                  /\ startswith(strip(lines[j]), ZFS_PARENT_DATASET)
                  /\ startswith(last_segment(strip(lines[j])), PVC) } }

\* get_k8s_pvs: creds says which credential path loads ("incluster",
\* "kubeconfig" or "none"), list_ok whether the list call returns, items the
\* names of the volumes it returns.
get_k8s_pvs(creds, list_ok, items) ==
    LET config_exception == creds # "incluster"
        kube_exception   == config_exception /\ creds # "kubeconfig"
        list_exception   == ~kube_exception /\ ~list_ok
        caught           == kube_exception \/ list_exception
    IN [ uuids   |-> IF caught THEN {}
                     ELSE {n \in items : startswith(n, PVC)},
         failed  |-> caught,
         escapes |-> FALSE ]

\* The lookup as it would be if it compared for equality (uuid == t).
find_target_equal(uuid, full_targets_list) ==
    LET hits == {i \in 1..Len(full_targets_list) :
                    uuid = full_targets_list[i]} IN
    IF hits = {} THEN None ELSE full_targets_list[SetMin(hits)]

\* cleanup_iscsi: next((t for t in full_targets_list if uuid in t), None)
find_target(uuid, full_targets_list) ==
    LET hits == {i \in 1..Len(full_targets_list) :
                    Contains(uuid, full_targets_list[i])} IN
    IF hits = {} THEN None ELSE full_targets_list[SetMin(hits)]

\* --------------------------------------------------------------- state
VARIABLES
    host_nodes,     \* the host's iSCSI node database: target names, in order
    host_zvols,     \* the host's ZFS volume datasets
    DRY_RUN,        \* the run configuration's dry-run flag
    pc,             \* where main is
    rc,             \* exit status of the last command run_command ran
    raw,            \* what run_command returned for it
    reported,       \* whether run_command printed its error to stderr
    iscsi_uuids, iscsi_targets, zfs_uuids, k8s_uuids, stale_iscsi,
    api_failed,     \* get_k8s_pvs printed its failure warning
    todo,           \* identifiers the loop of cleanup_iscsi has not visited
    target,         \* the target the current iteration resolved
    logout_rc,      \* exit status of the current iteration's logout
    executed,       \* commands run through run_command in this run
    printed,        \* "  -> <command>" lines printed in this run
    ok_printed,     \* "[OK] No stale iSCSI configurations found." printed
    skipped,        \* identifiers for which no target was found
    delete_failed,  \* some delete command of this run exited non-zero
    start_nodes,    \* host_nodes when this run started
    start_zvols,    \* host_zvols when this run started
    second,         \* this is the second run on the host
    prev            \* what the first run collected and did

vars == << host_nodes, host_zvols, DRY_RUN, pc, rc, raw, reported,
           iscsi_uuids, iscsi_targets, zfs_uuids, k8s_uuids, stale_iscsi,
           api_failed, todo, target, logout_rc, executed, printed,
           ok_printed, skipped, delete_failed, start_nodes, start_zvols, second, prev >>

SeqsUpTo(S, n) == UNION { [1..k -> S] : k \in 0..n }

Cmd(op, t) == [op |-> op, target |-> t]

NoRun ==
    [ iscsi_targets |-> <<>>, zfs_uuids |-> {}, k8s_uuids |-> {},
      stale_iscsi |-> {}, executed |-> <<>>, printed |-> <<>>,
      delete_failed |-> FALSE ]

\* A fresh process: nothing collected, nothing run.
Fresh ==
    /\ pc = "iscsi"
    /\ rc = NoExit /\ raw = <<>> /\ reported = FALSE
    /\ iscsi_uuids = {} /\ iscsi_targets = <<>> /\ zfs_uuids = {}
    /\ k8s_uuids = {} /\ stale_iscsi = {} /\ api_failed = FALSE
    /\ todo = {} /\ target = None /\ logout_rc = NoExit
    /\ executed = <<>> /\ printed = <<>> /\ ok_printed = FALSE
    /\ skipped = {} /\ delete_failed = FALSE

Init ==
    /\ host_nodes \in SeqsUpTo(TargetNames, MaxTargets)
    /\ host_zvols \in SUBSET { ZvolPaths[i] : i \in 1..Len(ZvolPaths) }
    /\ DRY_RUN \in BOOLEAN
    /\ Fresh
    /\ start_nodes = host_nodes
    /\ start_zvols = host_zvols
    /\ second = FALSE
    /\ prev = NoRun

\* One call of run_command: its result and the record of the command.
Exec(op, t, stdout, exit) ==
    LET r == run_command(stdout, exit) IN
    /\ rc' = exit
    /\ raw' = r.out
    /\ reported' = r.err
    /\ executed' = Append(executed, Cmd(op, t))

Then(stdout, exit, next) ==
    IF run_command(stdout, exit).raises THEN "aborted" ELSE next

\* main: iscsi_uuids, iscsi_targets = get_iscsi_nodes()
GetIscsiNodes ==
    /\ pc = "iscsi"
    /\ \E exit \in ExitCodes :
         LET stdout == iscsiadm_node(host_nodes)
             nodes  == get_iscsi_nodes(run_command(stdout, exit).out)
         IN
         /\ Exec("list_iscsi", None, stdout, exit)
         /\ iscsi_uuids' = nodes.uuids
         /\ iscsi_targets' = nodes.full_targets
         /\ pc' = Then(stdout, exit, "zfs")
    /\ UNCHANGED << host_nodes, host_zvols, DRY_RUN, zfs_uuids, k8s_uuids,
                    stale_iscsi, api_failed, todo, target, logout_rc, printed,
                    ok_printed, skipped, delete_failed, start_nodes, start_zvols, second,
                    prev >>

\* main: zfs_uuids = get_zfs_volumes()
GetZfsVolumes ==
    /\ pc = "zfs"
    /\ \E exit \in ExitCodes :
         LET stdout == zfs_list(host_zvols) IN
         /\ Exec("list_zfs", None, stdout, exit)
         /\ zfs_uuids' = get_zfs_volumes(run_command(stdout, exit).out)
         /\ pc' = Then(stdout, exit, "k8s")
    /\ UNCHANGED << host_nodes, host_zvols, DRY_RUN, iscsi_uuids,
                    iscsi_targets, k8s_uuids, stale_iscsi, api_failed, todo,
                    target, logout_rc, printed, ok_printed, skipped,
                    delete_failed, start_nodes, start_zvols, second, prev >>

\* main: k8s_uuids = get_k8s_pvs()
GetK8sPvs ==
    /\ pc = "k8s"
    /\ \E creds \in {"incluster", "kubeconfig", "none"}, list_ok \in BOOLEAN,
          items \in SUBSET PvNames :
         LET r == get_k8s_pvs(creds, list_ok, items) IN
         /\ k8s_uuids' = r.uuids
         /\ api_failed' = r.failed
         /\ pc' = IF r.escapes THEN "aborted" ELSE "reconcile"
    /\ UNCHANGED << host_nodes, host_zvols, DRY_RUN, rc, raw, reported,
                    iscsi_uuids, iscsi_targets, zfs_uuids, stale_iscsi, todo,
                    target, logout_rc, executed, printed, ok_printed, skipped,
                    delete_failed, start_nodes, start_zvols, second, prev >>

\* The stale set as it would be if the ZFS inventory were left out.
reconcile_without_zfs(iscsi, zfs) == iscsi

\* The stale set as it would be if the cluster inventory took part.
reconcile_with_cluster(iscsi, zfs) == (iscsi \ zfs) \ k8s_uuids

\* main: stale_iscsi = iscsi_uuids - zfs_uuids
reconcile(iscsi, zfs) == iscsi \ zfs

\* main: the stale set, then cleanup_iscsi or the "[OK]" report.
Reconcile ==
    /\ pc = "reconcile"
    /\ stale_iscsi' = reconcile(iscsi_uuids, zfs_uuids)
    /\ IF reconcile(iscsi_uuids, zfs_uuids) # {}
       THEN /\ todo' = reconcile(iscsi_uuids, zfs_uuids)
            /\ ok_printed' = FALSE
            /\ pc' = "cleanup"
       ELSE /\ todo' = {}
            /\ ok_printed' = TRUE
            /\ pc' = "done"
    /\ UNCHANGED << host_nodes, host_zvols, DRY_RUN, rc, raw, reported,
                    iscsi_uuids, iscsi_targets, zfs_uuids, k8s_uuids,
                    api_failed, target, logout_rc, executed, printed, skipped,
                    delete_failed, start_nodes, start_zvols, second, prev >>

\* The test as it would be if the dry-run flag were not consulted.
live_always == TRUE

\* cleanup_iscsi: if not DRY_RUN
live == ~DRY_RUN

\* cleanup_iscsi: one iteration of the loop over the stale set, in whatever
\* order the set yields its elements, up to the first run_command call.
CleanupNext ==
    /\ pc = "cleanup"
    /\ \E uuid \in todo :
         LET t == find_target(uuid, iscsi_targets) IN
         /\ todo' = todo \ {uuid}
         /\ IF t # None
            THEN /\ printed' = printed \o << Cmd("logout", t), Cmd("delete", t) >>
                 /\ skipped' = skipped
                 /\ IF live
                    THEN target' = t /\ pc' = "logout"
                    ELSE target' = None /\ pc' = "cleanup"
            ELSE /\ printed' = printed
                 /\ skipped' = skipped \cup {uuid}
                 /\ target' = None
                 /\ pc' = "cleanup"
    /\ logout_rc' = NoExit
    /\ UNCHANGED << host_nodes, host_zvols, DRY_RUN, rc, raw, reported,
                    iscsi_uuids, iscsi_targets, zfs_uuids, k8s_uuids,
                    stale_iscsi, api_failed, executed, ok_printed,
                    delete_failed, start_nodes, start_zvols, second, prev >>

\* The logout step as it would be if a failed logout ended the iteration.
LogoutOrSkip ==
    /\ pc = "logout"
    /\ \E exit \in ExitCodes :
         /\ Exec("logout", target, <<>>, exit)
         /\ logout_rc' = exit
         /\ pc' = IF exit = 0 THEN "delete" ELSE "cleanup"
    /\ UNCHANGED << host_nodes, host_zvols, DRY_RUN, iscsi_uuids,
                    iscsi_targets, zfs_uuids, k8s_uuids, stale_iscsi,
                    api_failed, todo, target, printed, ok_printed, skipped,
                    delete_failed, start_nodes, start_zvols, second, prev >>

\* cleanup_iscsi: run_command(logout_cmd)
Logout ==
    /\ pc = "logout"
    /\ \E exit \in ExitCodes :
         /\ Exec("logout", target, <<>>, exit)
         /\ logout_rc' = exit
         /\ pc' = Then(<<>>, exit, "delete")
    /\ UNCHANGED << host_nodes, host_zvols, DRY_RUN, iscsi_uuids,
                    iscsi_targets, zfs_uuids, k8s_uuids, stale_iscsi,
                    api_failed, todo, target, printed, ok_printed, skipped,
                    delete_failed, start_nodes, start_zvols, second, prev >>

\* cleanup_iscsi: run_command(delete_cmd)
Delete ==
    /\ pc = "delete"
    /\ \E exit \in ExitCodes :
         /\ Exec("delete", target, <<>>, exit)
         /\ host_nodes' = IF exit = 0 THEN delete_records(host_nodes, target)
                          ELSE host_nodes
         /\ delete_failed' = (delete_failed \/ exit # 0)
         /\ pc' = Then(<<>>, exit, "cleanup")
    /\ UNCHANGED << host_zvols, DRY_RUN, iscsi_uuids, iscsi_targets,
                    zfs_uuids, k8s_uuids, stale_iscsi, api_failed, todo,
                    target, logout_rc, printed, ok_printed, skipped,
                    start_nodes, start_zvols, second, prev >>

\* cleanup_iscsi returns; main ends.
CleanupDone ==
    /\ pc = "cleanup"
    /\ todo = {}
    /\ pc' = "done"
    /\ target' = None
    /\ logout_rc' = NoExit
    /\ UNCHANGED << host_nodes, host_zvols, DRY_RUN, rc, raw, reported,
                    iscsi_uuids, iscsi_targets, zfs_uuids, k8s_uuids,
                    stale_iscsi, api_failed, todo, executed, printed,
                    ok_printed, skipped, delete_failed, start_nodes, start_zvols, second,
                    prev >>

\* The tool is run again on the same host (the next scheduled run): a new
\* process, with the same configuration, that keeps nothing of the first.
NextRun ==
    /\ pc = "done"
    /\ ~second
    /\ second' = TRUE
    /\ prev' = [ iscsi_targets |-> iscsi_targets, zfs_uuids |-> zfs_uuids,
                 k8s_uuids |-> k8s_uuids, stale_iscsi |-> stale_iscsi,
                 executed |-> executed, printed |-> printed,
                 delete_failed |-> delete_failed ]
    /\ pc' = "iscsi"
    /\ rc' = NoExit /\ raw' = <<>> /\ reported' = FALSE
    /\ iscsi_uuids' = {} /\ iscsi_targets' = <<>> /\ zfs_uuids' = {}
    /\ k8s_uuids' = {} /\ stale_iscsi' = {} /\ api_failed' = FALSE
    /\ todo' = {} /\ target' = None /\ logout_rc' = NoExit
    /\ executed' = <<>> /\ printed' = <<>> /\ ok_printed' = FALSE
    /\ skipped' = {} /\ delete_failed' = FALSE
    /\ start_nodes' = host_nodes
    /\ start_zvols' = host_zvols
    /\ UNCHANGED << host_nodes, host_zvols, DRY_RUN >>

Next ==
    \/ GetIscsiNodes
    \/ GetZfsVolumes
    \/ GetK8sPvs
    \/ Reconcile
    \/ CleanupNext
    \/ Logout
    \/ Delete
    \/ CleanupDone

\* One run of the tool.
Spec == Init /\ [][Next]_vars

\* A run of the tool and the next scheduled run on the same host.
RunsNext == Next \/ NextRun

RunsSpec == Init /\ [][RunsNext]_vars

\* ------------------------------------------------------------- claims
CleanupOps == {"logout", "delete"}

\* Positions of the commands of kind op in a log.
Positions(log, op) == {i \in 1..Len(log) : log[i].op = op}

\* How often command c occurs in a log.
Count(log, c) == Cardinality({i \in 1..Len(log) : log[i] = c})

\* The logout and delete commands of a log, in order.
RECURSIVE CleanupCmds(_)
CleanupCmds(log) ==
    IF log = <<>> THEN <<>>
    ELSE (IF Head(log).op \in CleanupOps THEN <<Head(log)>> ELSE <<>>)
         \o CleanupCmds(Tail(log))

\* main has computed the stale set.
Reconciled == pc \in {"cleanup", "logout", "delete", "done"}

\* C1: in a live run, every target that is logged out or deleted is a target
\* whose own identifier is absent from the ZFS inventory of the run.
C1_OnlyStaleTargetsRemoved ==
    live => \A i \in 1..Len(executed) :
                executed[i].op \in CleanupOps
                    => re_search(executed[i].target) \notin zfs_uuids

\* The ZFS listing yielded nothing although the host holds volumes under the
\* parent dataset: the data source is missing, not empty.
ZfsSourceMissing ==
    /\ zfs_uuids = {}
    /\ get_zfs_volumes(strip(zfs_list(host_zvols))) # {}

\* C2: when the ZFS listing fails while the iSCSI inventory is not empty, the
\* run does not put every iSCSI identifier in the stale set and, live, does
\* not log out and delete every collected target.
C2_MissingZfsNotAllStale ==
    (pc = "done" /\ ZfsSourceMissing /\ iscsi_uuids # {})
        => /\ stale_iscsi # iscsi_uuids
           /\ live => \E i \in 1..Len(iscsi_targets) :
                         Count(executed, Cmd("delete", iscsi_targets[i])) = 0

\* C3: a dry run executes nothing but the two listings and leaves the host's
\* node database as it found it.
C3_DryRunExecutesNothing ==
    DRY_RUN => /\ \A i \in 1..Len(executed) :
                     executed[i].op \in {"list_iscsi", "list_zfs"}
               /\ Len(executed) <= 2
               /\ host_nodes = start_nodes
               /\ host_zvols = start_zvols

C3_Witness ==
    /\ DRY_RUN
    /\ pc = "done"
    /\ printed # <<>>
    /\ Len(executed) = 2

\* C4: the stale set is exactly the iSCSI inventory minus the ZFS inventory;
\* when it is empty nothing is printed or executed for cleanup and the run
\* reports that nothing is stale.
C4_StaleIsDifference ==
    Reconciled =>
        /\ \A u \in iscsi_uuids \cup zfs_uuids \cup stale_iscsi :
               u \in stale_iscsi <=> (u \in iscsi_uuids /\ u \notin zfs_uuids)
        /\ (iscsi_uuids = zfs_uuids \/ iscsi_uuids = {}) => stale_iscsi = {}
        /\ stale_iscsi = {} => /\ pc = "done"
                               /\ ok_printed
                               /\ printed = <<>>
                               /\ CleanupCmds(executed) = <<>>
        /\ stale_iscsi # {} => ~ok_printed

C4_Witness ==
    /\ pc = "done"
    /\ stale_iscsi # {}
    /\ stale_iscsi # iscsi_uuids
    /\ zfs_uuids \ iscsi_uuids = {}

\* C5: live, each delete directly follows the logout of the same target, and
\* each logout, whatever its exit status, is followed by that delete.
C5_LogoutThenDelete ==
    live =>
        /\ \A i \in Positions(executed, "delete") :
               /\ i > 1
               /\ executed[i - 1] = Cmd("logout", executed[i].target)
        /\ \A i \in Positions(executed, "logout") :
               IF i = Len(executed)
               THEN pc = "delete" /\ target = executed[i].target
               ELSE executed[i + 1] = Cmd("delete", executed[i].target)
        /\ pc = "delete" => /\ logout_rc \in ExitCodes
                            /\ executed[Len(executed)].op = "logout"
                            /\ ENABLED Delete

C5_Witness ==
    /\ live
    /\ pc = "cleanup"
    /\ logout_rc = 2
    /\ executed # <<>>
    /\ executed[Len(executed)] = Cmd("delete", target)

\* C6: after a live run whose deletes all succeeded, with the same ZFS
\* inventory, the next run collects none of the first run's stale identifiers,
\* finds nothing stale and prints and runs no cleanup command.
C6_SecondRunFindsNothing ==
    ( /\ second /\ pc = "done" /\ live
      /\ prev.stale_iscsi # {}
      /\ ~prev.delete_failed
      /\ zfs_uuids = prev.zfs_uuids )
        => /\ iscsi_uuids \cap prev.stale_iscsi = {}
           /\ stale_iscsi = {}
           /\ printed = <<>>
           /\ CleanupCmds(executed) = <<>>

\* Two finished runs that collected the same target list and the same ZFS
\* inventory (under the one dry-run flag of the configuration).
SameListings ==
    /\ second /\ pc = "done"
    /\ iscsi_targets = prev.iscsi_targets
    /\ zfs_uuids = prev.zfs_uuids

\* C7 as stated: such runs compute the same stale set and issue the same
\* sequence of logout and delete commands, whatever the cluster inventories.
C7_SameSequence ==
    SameListings => /\ stale_iscsi = prev.stale_iscsi
                    /\ printed = prev.printed
                    /\ CleanupCmds(executed) = CleanupCmds(prev.executed)

\* C7 amended: such runs compute the same stale set and issue the same
\* logout and delete commands, each as many times, whatever the cluster
\* inventories; the order among the stale identifiers is not fixed.
C7_SameCommands ==
    SameListings =>
        /\ stale_iscsi = prev.stale_iscsi
        /\ Len(printed) = Len(prev.printed)
        /\ Len(CleanupCmds(executed)) = Len(CleanupCmds(prev.executed))
        /\ \A i \in 1..Len(printed) :
               Count(printed, printed[i]) = Count(prev.printed, printed[i])
        /\ \A i \in Positions(executed, "logout") \cup Positions(executed, "delete") :
               Count(executed, executed[i]) = Count(prev.executed, executed[i])

C7_Witness ==
    /\ SameListings
    /\ k8s_uuids # prev.k8s_uuids
    /\ live
    /\ CleanupCmds(executed) # <<>>

\* An upper bound of the steps still to take (those of a second run
\* included, when there is one).
StepsLeft ==
    LET loop == 3 * Cardinality(todo)
        run  == CASE pc = "iscsi"     -> 3 * Len(host_nodes) + 6
                  [] pc = "zfs"       -> 3 * Len(host_nodes) + 5
                  [] pc = "k8s"       -> 3 * Len(host_nodes) + 4
                  [] pc = "reconcile" -> 3 * Len(host_nodes) + 3
                  [] pc = "logout"    -> loop + 3
                  [] pc = "delete"    -> loop + 2
                  [] pc = "cleanup"   -> loop + 1
                  [] OTHER            -> 0
    IN run + (IF second THEN 0 ELSE 3 * Len(start_nodes) + 7)

\* The steps of a run after the two listings, each of which is taken
\* whatever the exit status of its command.
LaterStep ==
    GetK8sPvs \/ Reconcile \/ CleanupNext \/ Logout \/ Delete \/ CleanupDone

\* C8: no outcome of a command or of the cluster API call stops the run: it
\* never aborts, takes a next step from every state but its end, and every
\* step brings the end nearer; a failed command returns empty output,
\* reported on stderr only when its status is not 1; a failed API call gives
\* an empty cluster inventory.
C8_NoErrorIsFatal ==
    /\ [](/\ pc \in {"iscsi", "zfs", "k8s", "reconcile", "cleanup", "logout",
                     "delete", "done"}
          /\ pc \notin {"iscsi", "zfs", "done"} => ENABLED LaterStep
          /\ (rc # NoExit /\ rc # 0) => raw = <<>>
          /\ rc # NoExit => (reported <=> rc \notin {0, 1})
          /\ api_failed => k8s_uuids = {})
    /\ [][StepsLeft' < StepsLeft /\ StepsLeft' >= 0]_vars

C8_Witness ==
    /\ pc = "done"
    /\ api_failed
    /\ rc = 2
    /\ delete_failed

\* C9: in a live run no logout and no delete of one target name is executed
\* more than once.
C9_EachCommandOnce ==
    live => \A i \in 1..Len(executed) :
                executed[i].op \in CleanupOps => Count(executed, executed[i]) = 1

\* C10: the identifier set and the target list are built together, so every
\* stale identifier resolves to a target: nothing is skipped, both commands
\* are printed for every stale identifier, and live both are executed for it.
C10_NoIdentifierSkipped ==
    /\ skipped = {}
    /\ iscsi_uuids = {re_search(iscsi_targets[i]) : i \in 1..Len(iscsi_targets)}
    /\ Reconciled => \A u \in stale_iscsi : find_target(u, iscsi_targets) # None
    /\ pc = "done" =>
          /\ Cardinality(Positions(printed, "logout")) = Cardinality(stale_iscsi)
          /\ Cardinality(Positions(printed, "delete")) = Cardinality(stale_iscsi)
          /\ live => /\ Cardinality(Positions(executed, "logout"))
                          = Cardinality(stale_iscsi)
                     /\ Cardinality(Positions(executed, "delete"))
                          = Cardinality(stale_iscsi)

C10_Witness ==
    /\ pc = "done"
    /\ live
    /\ Cardinality(stale_iscsi) > 1
    /\ Len(CleanupCmds(executed)) = 2 * Cardinality(stale_iscsi)

=============================================================================
